---- MODULE Spec2Model ----
(***************************************************************************)
(* Model of the lobby view src/app/lobby/[id]/page.tsx (LobbyPage): the     *)
(* React state of the view, the socket listeners it attaches, the closures  *)
(* left behind by handleStartGame (two one-shot listeners and a timer), the *)
(* catalog fetch of handleSpotifyAuth, and what the view sends out          *)
(* (socket.emit, router.push, alert).                                       *)
(***************************************************************************)
EXTENDS Integers, Sequences, FiniteSets, TLC

\* ---------------------------------------------------------------- bounds
\* Largest number of players in a lobbyUpdate snapshot.
MaxPlayers == 1
\* Largest number of messages the view emits in a run.
MaxEmit == 2
\* Largest number of router.push calls in a run.
MaxNavs == 2
\* Largest number of items in a catalog response.
MaxItems == 3

\* ------------------------------------------------------------ JS values
\* null / undefined, and a present value.
Null == <<>>
Some(x) == <<x>>
IsNull(v) == v = <<>>
Val(v) == v[1]

\* ------------------------------------------------------- route and socket
\* params.id; a route segment is never empty.
lobbyId == "ABCD"
\* socket.id of this client's connection.
SocketId == 1
\* Values of searchParams.get("name") || "": the entry screen sends a name.
PlayerNames == {"Ada"}
\* Credentials SpotifyAuth hands to onSuccess.
Tokens == {"tok"}
\* Messages of the server's error event.
ErrorMessages == {"Lobby not found"}

\* ---------------------------------------------------------------- Player
\* The entries a snapshot may hold: the host (whose isReady the server leaves
\* false), and guests, ready or not.
Player == {p \in [id : 1..MaxPlayers, isReady : BOOLEAN, isHost : BOOLEAN] : p.isHost => ~p.isReady}

\* lobby.players of a snapshot: one entry per connection, at most MaxPlayers.
PlayerLists ==
  LET all == UNION {[1..n -> Player] : n \in 0..MaxPlayers}
  IN {s \in all : \A i \in 1..Len(s) : \A j \in 1..Len(s) : i < j => s[i].id < s[j].id}

\* lobby.spotifyPlaylist of a snapshot: what updatePlaylist carried ({id, name}).
SnapshotPlaylists == {[id |-> 2, name |-> "Mix"]}

\* Payloads of the lobbyUpdate event.
Lobbies == [players : PlayerLists, spotifyPlaylist : {Null} \cup {Some(p) : p \in SnapshotPlaylists}]

\* Payloads of the gameStart event.
GameStartPlaylists == {[id |-> 1]}

\* --------------------------------------------------------------- catalog
\* Shapes of one entry of data.items, without its id: a null entry, an entry
\* without tracks, a complete entry, an entry with tracks and nothing else, and
\* an entry whose name is empty, whose total is 0 and whose images are empty.
NullShape == Null
NoTracksShape == Some([name |-> Some("Mix"), tracks |-> Null, images |-> Some(<<[url |-> Some("img")]>>)])
FullShape == Some([name |-> Some("Mix"), tracks |-> Some([total |-> Some(12)]), images |-> Some(<<[url |-> Some("img")]>>)])
BareShape == Some([name |-> Null, tracks |-> Some([total |-> Null]), images |-> Null])
EmptyShape == Some([name |-> Some(""), tracks |-> Some([total |-> Some(0)]), images |-> Some(<<>>)])
ItemShapes == {NullShape, NoTracksShape, FullShape, BareShape, EmptyShape}

\* The entry of shape sh at position i of a response; its id is its position.
ItemAt(i, sh) ==
  IF IsNull(sh) THEN Null
  ELSE Some([id |-> i, name |-> Val(sh).name, tracks |-> Val(sh).tracks, images |-> Val(sh).images])

\* data.items of every response of at most MaxItems entries.
AllItems ==
  UNION {{[i \in 1..n |-> ItemAt(i, f[i])] : f \in [1..n -> ItemShapes]} : n \in 0..MaxItems}

\* item && item.tracks
HasTracks(item) == ~IsNull(item) /\ ~IsNull(Val(item).tracks)

\* item.name || 'Unnamed Playlist'
NameOrDefault(name) == IF IsNull(name) \/ Val(name) = "" THEN "Unnamed Playlist" ELSE Val(name)

\* item.tracks.total || 0
TotalOrZero(total) == IF IsNull(total) THEN 0 ELSE Val(total)

\* item.images?.[0]?.url || null
FirstImageUrl(images) ==
  IF IsNull(images) THEN Null
  ELSE IF Len(Val(images)) = 0 THEN Null
  ELSE IF IsNull(Val(images)[1].url) THEN Null
  ELSE IF Val(Val(images)[1].url) = "" THEN Null
  ELSE Some(Val(Val(images)[1].url))

\* The object the map callback builds.
FormatItem(item) ==
  [id |-> Val(item).id,
   name |-> NameOrDefault(Val(item).name),
   tracks |-> TotalOrZero(Val(Val(item).tracks).total),
   imageUrl |-> FirstImageUrl(Val(item).images)]

\* A filter that stops at the first entry the predicate rejects.
RECURSIVE FilterTracksUntilMiss(_)
FilterTracksUntilMiss(items) ==
  IF items = <<>> THEN <<>>
  ELSE IF HasTracks(Head(items)) THEN <<Head(items)>> \o FilterTracksUntilMiss(Tail(items))
  ELSE <<>>

\* Array.prototype.filter with the predicate of line 113.
RECURSIVE FilterTracks(_)
FilterTracks(items) ==
  IF items = <<>> THEN <<>>
  ELSE IF HasTracks(Head(items)) THEN <<Head(items)>> \o FilterTracks(Tail(items))
  ELSE FilterTracks(Tail(items))

\* Array.prototype.map with the callback of lines 114-119.
MapFormat(items) == [i \in 1..Len(items) |-> FormatItem(items[i])]

\* data.items.filter(...).map(...)
FormatPlaylists(items) == MapFormat(FilterTracks(items))

\* Outcomes of the fetch: a body, a non-success status, a network failure.
HttpError == [kind |-> "http", items |-> <<>>]
NetworkError == [kind |-> "network", items |-> <<>>]
OkResponse(items) == [kind |-> "ok", items |-> items]
AllResponses == {OkResponse(items) : items \in AllItems} \cup {HttpError, NetworkError}

\* The responses the lobby specification draws from: a body with one entry
\* lacking tracks and one complete entry, and the two failures.
SampleItems == <<ItemAt(1, NoTracksShape), ItemAt(2, FullShape)>>
SampleResponses == {OkResponse(SampleItems), HttpError, NetworkError}

\* ------------------------------------------------------------- messages
JoinMsg(name, host) == [event |-> "joinLobby", lobbyId |-> lobbyId, playerName |-> name, isHost |-> host]
ToggleMsg == [event |-> "toggleReady", lobbyId |-> lobbyId]
UpdatePlaylistMsg(p) == [event |-> "updatePlaylist", lobbyId |-> lobbyId, playlist |-> [id |-> p.id, name |-> p.name]]
StartGameMsg(token) == [event |-> "startGame", lobbyId |-> lobbyId, accessToken |-> token]

\* router.push targets.
HomeRoute == [path |-> "/", playlist |-> 0, token |-> Null]
GameRoute(id) == [path |-> "/game/ABCD", playlist |-> id, token |-> Null]
GameRouteWithToken(id, token) == [path |-> "/game/ABCD", playlist |-> id, token |-> Some(token)]

\* alert texts.
FetchFailedAlert == "Failed to load playlists. Please try again."
StartFailedAlert == "Failed to start game. Please try again."
StartTimeoutAlert == "Game start timed out. Please try again."

\* ----------------------------------------------------------------- state
VARIABLES
  isHost,             \* searchParams.get("host") === "true"
  playerName,         \* searchParams.get("name") || ""
  socket,             \* useSocket(): "null", "connecting" or "connected"
  mounted,            \* the view is on screen
  effectPending,      \* the effect of lines 59-92 is scheduled to run
  subscribed,         \* the three socket.on listeners of the effect are attached
  players,            \* useState<Player[]>
  isReady,            \* useState(false)
  spotifyToken,       \* useState<string | null>
  playlists,          \* useState<Playlist[]>
  selectedPlaylist,   \* useState<Playlist | null>
  showPlaylistDialog, \* useState(false)
  isStarting,         \* useState(false)
  fetch,              \* the handleSpotifyAuth call: where it is and what it got
  starts,             \* one entry per handleStartGame call: its closures
  lastSnapshot,       \* lobby.players of the lobbyUpdate handled last
  emitted,            \* socket.emit calls, in order
  navs,               \* router.push calls, in order
  alerts              \* alert calls, in order

vars == <<isHost, playerName, socket, mounted, effectPending, subscribed, players, isReady,
          spotifyToken, playlists, selectedPlaylist, showPlaylistDialog, isStarting, fetch,
          starts, lastSnapshot, emitted, navs, alerts>>

routeVars == <<isHost, playerName>>
reactVars == <<players, isReady, spotifyToken, playlists, selectedPlaylist, showPlaylistDialog, isStarting>>
outVars == <<emitted, navs, alerts>>

NoFetch == [status |-> "none", response |-> HttpError]

Init ==
  /\ isHost \in BOOLEAN
  /\ playerName \in PlayerNames
  /\ socket \in {"null", "connecting", "connected"}
  /\ mounted = TRUE
  /\ effectPending = TRUE
  /\ subscribed = FALSE
  /\ players = <<>>
  /\ isReady = FALSE
  /\ spotifyToken = Null
  /\ playlists = <<>>
  /\ selectedPlaylist = Null
  /\ showPlaylistDialog = FALSE
  /\ isStarting = FALSE
  /\ fetch = NoFetch
  /\ starts = <<>>
  /\ lastSnapshot = Null
  /\ emitted = <<>>
  /\ navs = <<>>
  /\ alerts = <<>>

\* ---------------------------------------------------------------- render
\* players.filter(p => !p.isHost)
NonHostPlayers == SelectSeq(players, LAMBDA p : ~p.isHost)

\* Array.prototype.every(p => p.isReady)
EveryReady(ps) == \A i \in 1..Len(ps) : ps[i].isReady

\* The disabled expression without its isStarting operand.
StartDisabledWhileStarting ==
  \/ IsNull(selectedPlaylist)
  \/ IsNull(spotifyToken)
  \/ ~EveryReady(NonHostPlayers)

\* The disabled expression without its readiness operand.
StartDisabledIgnoringReady ==
  \/ IsNull(selectedPlaylist)
  \/ IsNull(spotifyToken)
  \/ isStarting

\* The disabled expression of the Start Game button.
StartDisabled ==
  \/ IsNull(selectedPlaylist)
  \/ IsNull(spotifyToken)
  \/ ~EveryReady(NonHostPlayers)
  \/ isStarting

\* <SpotifyAuth> rendered outside the isHost guard.
SpotifyAuthShownToAll == mounted /\ IsNull(spotifyToken)

\* <SpotifyAuth> is on screen.
SpotifyAuthShown == mounted /\ isHost /\ IsNull(spotifyToken)

\* The Select Playlist / Change Playlist button is on screen.
SelectButtonShown == mounted /\ isHost /\ ~IsNull(spotifyToken)

\* The Start Game button: "absent", "disabled" or "enabled".
StartButton ==
  IF ~(mounted /\ isHost /\ ~IsNull(spotifyToken)) THEN "absent"
  ELSE IF StartDisabled THEN "disabled"
  ELSE "enabled"

\* The Ready button is on screen.
ReadyButtonShown == mounted /\ ~isHost

\* The readiness taken from the local mirror.
IsPlayerReadyFromMirror == isReady

\* players.find(p => p.id === socket?.id)?.isReady || false
IsPlayerReady ==
  /\ socket # "null"
  /\ \E i \in 1..Len(players) :
       /\ players[i].id = SocketId
       /\ \A j \in 1..(i - 1) : players[j].id # SocketId
       /\ players[i].isReady

\* The label of the Ready button, which shows the player's readiness.
ReadyButtonLabel == IF IsPlayerReady THEN "Not Ready" ELSE "Ready"

\* ---------------------------------------------------------------- socket
\* useSocket hands the view a socket it did not have.
SocketCreated ==
  /\ mounted
  /\ socket = "null"
  /\ socket' = "connecting"
  /\ effectPending' = TRUE
  /\ UNCHANGED <<routeVars, mounted, subscribed, reactVars, fetch, starts, lastSnapshot, outVars>>

\* The connection handshake completes.
Connect ==
  /\ socket = "connecting"
  /\ socket' = "connected"
  /\ UNCHANGED <<routeVars, mounted, effectPending, subscribed, reactVars, fetch, starts, lastSnapshot, outVars>>

\* ---------------------------------------------------------------- effect
\* joinLobby(): what emitted is after the call.
JoinLobby ==
  IF socket = "null" \/ playerName = "" \/ lobbyId = "" THEN emitted
  ELSE Append(emitted, JoinMsg(playerName, isHost))

\* socket.off('error') removes every listener of the event, the one-shot
\* listeners of handleStartGame included.
OffError(ss) == [k \in 1..Len(ss) |-> [ss[k] EXCEPT !.err = FALSE]]

\* One run of the effect: the cleanup of its previous run, then its body.
RunEffect ==
  /\ effectPending' = FALSE
  /\ IF socket = "null"
     THEN UNCHANGED <<subscribed, emitted, starts>>
     ELSE /\ emitted' = IF socket # "connected" THEN JoinLobby ELSE emitted
          /\ Len(emitted') <= MaxEmit
          /\ subscribed' = TRUE
          /\ starts' = IF subscribed THEN OffError(starts) ELSE starts
  /\ UNCHANGED <<routeVars, socket, mounted, reactVars, fetch, lastSnapshot, navs, alerts>>

\* The effect runs after the first render, and after useSocket changed socket.
MountEffect ==
  /\ mounted
  /\ effectPending
  /\ RunEffect

\* React runs the effect again while the view stays mounted (a dependency
\* changed identity, or the development double invocation of effects).
EffectRerun ==
  /\ mounted
  /\ ~effectPending
  /\ socket # "null"
  /\ RunEffect

\* The view leaves the screen after a router.push: the cleanup of the effect.
Unmount ==
  /\ mounted
  /\ navs # <<>>
  /\ mounted' = FALSE
  /\ effectPending' = FALSE
  /\ subscribed' = FALSE
  /\ starts' = IF subscribed THEN OffError(starts) ELSE starts
  /\ UNCHANGED <<routeVars, socket, reactVars, fetch, lastSnapshot, outVars>>

\* --------------------------------------------------------- socket events
\* The server's events reach the listeners only over an established
\* connection (socket.connected, and socket.id set).
\* A lobbyUpdate listener that adds the snapshot's players to the list it holds.
OnLobbyUpdateAppending(lobby) ==
  /\ socket = "connected"
  /\ subscribed
  /\ players' = players \o lobby.players
  /\ selectedPlaylist' = IF ~IsNull(lobby.spotifyPlaylist) THEN lobby.spotifyPlaylist ELSE selectedPlaylist
  /\ lastSnapshot' = Some(lobby.players)
  /\ UNCHANGED <<routeVars, socket, mounted, effectPending, subscribed, isReady, spotifyToken,
                 playlists, showPlaylistDialog, isStarting, fetch, starts, outVars>>

\* A lobbyUpdate listener that keeps the local selection when the snapshot's
\* playlist has the same id.
OnLobbyUpdateKeepingLocal(lobby) ==
  /\ socket = "connected"
  /\ subscribed
  /\ players' = lobby.players
  /\ selectedPlaylist' =
       IF IsNull(lobby.spotifyPlaylist) THEN selectedPlaylist
       ELSE IF ~IsNull(selectedPlaylist) /\ Val(selectedPlaylist).id = Val(lobby.spotifyPlaylist).id
            THEN selectedPlaylist
       ELSE lobby.spotifyPlaylist
  /\ lastSnapshot' = Some(lobby.players)
  /\ UNCHANGED <<routeVars, socket, mounted, effectPending, subscribed, isReady, spotifyToken,
                 playlists, showPlaylistDialog, isStarting, fetch, starts, outVars>>

\* A lobbyUpdate listener that sets the selection from every snapshot.
OnLobbyUpdateClearing(lobby) ==
  /\ socket = "connected"
  /\ subscribed
  /\ players' = lobby.players
  /\ selectedPlaylist' = lobby.spotifyPlaylist
  /\ lastSnapshot' = Some(lobby.players)
  /\ UNCHANGED <<routeVars, socket, mounted, effectPending, subscribed, isReady, spotifyToken,
                 playlists, showPlaylistDialog, isStarting, fetch, starts, outVars>>

\* socket.on('lobbyUpdate', ...)
OnLobbyUpdate(lobby) ==
  /\ socket = "connected"
  /\ subscribed
  /\ players' = lobby.players
  /\ selectedPlaylist' = IF ~IsNull(lobby.spotifyPlaylist) THEN lobby.spotifyPlaylist ELSE selectedPlaylist
  /\ lastSnapshot' = Some(lobby.players)
  /\ UNCHANGED <<routeVars, socket, mounted, effectPending, subscribed, isReady, spotifyToken,
                 playlists, showPlaylistDialog, isStarting, fetch, starts, outVars>>

\* socket.on('gameStart', ...)
OnGameStart(playlist) ==
  /\ socket = "connected"
  /\ subscribed
  /\ Len(navs) < MaxNavs
  /\ navs' = Append(navs, GameRoute(playlist.id))
  /\ UNCHANGED <<routeVars, socket, mounted, effectPending, subscribed, reactVars, fetch, starts,
                 lastSnapshot, emitted, alerts>>

\* The handleStartGame calls whose one-shot error listener is still attached.
ErrPending == {k \in 1..Len(starts) : starts[k].err}

\* The handleStartGame calls whose one-shot gameStateUpdate listener is still attached.
AckPending == {k \in 1..Len(starts) : starts[k].ack}

\* An error event that the listener of the effect leaves to the one-shot
\* listeners of handleStartGame when there are any.
OnErrorLeftToStart(message) ==
  /\ socket = "connected"
  /\ subscribed \/ ErrPending # {}
  /\ subscribed => Len(navs) < MaxNavs
  /\ alerts' = alerts \o (IF subscribed /\ ErrPending = {} THEN <<message>> ELSE <<>>)
                      \o [k \in 1..Cardinality(ErrPending) |-> StartFailedAlert]
  /\ navs' = IF subscribed /\ ErrPending = {} THEN Append(navs, HomeRoute) ELSE navs
  /\ isStarting' = IF ErrPending # {} /\ mounted THEN FALSE ELSE isStarting
  /\ starts' = OffError(starts)
  /\ UNCHANGED <<routeVars, socket, mounted, effectPending, subscribed, players, isReady, spotifyToken,
                 playlists, selectedPlaylist, showPlaylistDialog, fetch, lastSnapshot, emitted>>

\* An error event: the listener of the effect runs first, then every one-shot
\* listener handleStartGame attached, each of which removes itself.
OnError(message) ==
  /\ socket = "connected"
  /\ subscribed \/ ErrPending # {}
  /\ subscribed => Len(navs) < MaxNavs
  /\ alerts' = alerts \o (IF subscribed THEN <<message>> ELSE <<>>)
                      \o [k \in 1..Cardinality(ErrPending) |-> StartFailedAlert]
  /\ navs' = IF subscribed THEN Append(navs, HomeRoute) ELSE navs
  /\ isStarting' = IF ErrPending # {} /\ mounted THEN FALSE ELSE isStarting
  /\ starts' = OffError(starts)
  /\ UNCHANGED <<routeVars, socket, mounted, effectPending, subscribed, players, isReady, spotifyToken,
                 playlists, selectedPlaylist, showPlaylistDialog, fetch, lastSnapshot, emitted>>

\* The router.push calls of the one-shot gameStateUpdate listeners of ss, in
\* the order the listeners were attached.
RECURSIVE AckRoutes(_)
AckRoutes(ss) ==
  IF ss = <<>> THEN <<>>
  ELSE (IF Head(ss).ack THEN <<GameRouteWithToken(Head(ss).playlistId, Head(ss).token)>> ELSE <<>>)
       \o AckRoutes(Tail(ss))

\* A gameStateUpdate event: every one-shot listener handleStartGame attached
\* runs and removes itself.
OnGameStateUpdate ==
  /\ socket = "connected"
  /\ AckPending # {}
  /\ Len(navs) + Cardinality(AckPending) <= MaxNavs
  /\ navs' = navs \o AckRoutes(starts)
  /\ starts' = [k \in 1..Len(starts) |-> [starts[k] EXCEPT !.ack = FALSE]]
  /\ UNCHANGED <<routeVars, socket, mounted, effectPending, subscribed, reactVars, fetch,
                 lastSnapshot, emitted, alerts>>

\* ---------------------------------------------------------- host: catalog
\* SpotifyAuth calls onSuccess(token): handleSpotifyAuth up to its first await.
HandleSpotifyAuth(token) ==
  /\ SpotifyAuthShown
  /\ ~effectPending
  /\ spotifyToken' = Some(token)
  /\ fetch' = [status |-> "pending", response |-> HttpError]
  /\ UNCHANGED <<routeVars, socket, mounted, effectPending, subscribed, players, isReady, playlists,
                 selectedPlaylist, showPlaylistDialog, isStarting, starts, lastSnapshot, outVars>>

\* handleSpotifyAuth after its awaits: the response is in, or the fetch threw.
\* React drops the state updates of a view that has left the screen.
HandleSpotifyAuthResume(response) ==
  /\ fetch.status = "pending"
  /\ IF response.kind = "ok"
     THEN /\ playlists' = IF mounted THEN FormatPlaylists(response.items) ELSE playlists
          /\ showPlaylistDialog' = IF mounted THEN TRUE ELSE showPlaylistDialog
          /\ fetch' = [status |-> "done", response |-> response]
          /\ UNCHANGED alerts
     ELSE /\ alerts' = Append(alerts, FetchFailedAlert)
          /\ fetch' = [status |-> "failed", response |-> response]
          /\ UNCHANGED <<playlists, showPlaylistDialog>>
  /\ UNCHANGED <<routeVars, socket, mounted, effectPending, subscribed, players, isReady, spotifyToken,
                 selectedPlaylist, isStarting, starts, lastSnapshot, emitted, navs>>

\* Select Playlist / Change Playlist: setShowPlaylistDialog(true)
OpenPlaylistDialog ==
  /\ SelectButtonShown
  /\ ~effectPending
  /\ ~showPlaylistDialog
  /\ showPlaylistDialog' = TRUE
  /\ UNCHANGED <<routeVars, socket, mounted, effectPending, subscribed, players, isReady, spotifyToken,
                 playlists, selectedPlaylist, isStarting, fetch, starts, lastSnapshot, outVars>>

\* The dialog's onOpenChange(false)
ClosePlaylistDialog ==
  /\ mounted
  /\ showPlaylistDialog
  /\ showPlaylistDialog' = FALSE
  /\ UNCHANGED <<routeVars, socket, mounted, effectPending, subscribed, players, isReady, spotifyToken,
                 playlists, selectedPlaylist, isStarting, fetch, starts, lastSnapshot, outVars>>

\* A handlePlaylistSelect that emits the playlist object it was given.
HandlePlaylistSelectWhole(i) ==
  /\ mounted
  /\ showPlaylistDialog
  /\ i \in 1..Len(playlists)
  /\ socket # "null"
  /\ Len(emitted) < MaxEmit
  /\ selectedPlaylist' = Some(playlists[i])
  /\ showPlaylistDialog' = FALSE
  /\ emitted' = Append(emitted, [event |-> "updatePlaylist", lobbyId |-> lobbyId, playlist |-> playlists[i]])
  /\ UNCHANGED <<routeVars, socket, mounted, effectPending, subscribed, players, isReady, spotifyToken,
                 playlists, isStarting, fetch, starts, lastSnapshot, navs, alerts>>

\* A click on entry i of the dialog: handlePlaylistSelect(playlists[i])
HandlePlaylistSelect(i) ==
  /\ mounted
  /\ showPlaylistDialog
  /\ i \in 1..Len(playlists)
  /\ socket # "null"
  /\ Len(emitted) < MaxEmit
  /\ selectedPlaylist' = Some(playlists[i])
  /\ showPlaylistDialog' = FALSE
  /\ emitted' = Append(emitted, UpdatePlaylistMsg(playlists[i]))
  /\ UNCHANGED <<routeVars, socket, mounted, effectPending, subscribed, players, isReady, spotifyToken,
                 playlists, isStarting, fetch, starts, lastSnapshot, navs, alerts>>

\* ------------------------------------------------------------ host: start
\* What one handleStartGame call leaves behind: the one-shot gameStateUpdate
\* listener (ack) with the playlist id and token it closed over, the one-shot
\* error listener (err), and the timer (timer) with the isStarting it closed over.
StartClosure ==
  [playlistId |-> Val(selectedPlaylist).id,
   token |-> Val(spotifyToken),
   isStarting |-> isStarting,
   ack |-> TRUE,
   err |-> TRUE,
   timer |-> TRUE]

\* handleStartGame() without its setIsStarting(true).
HandleStartGameNotMarking ==
  /\ StartButton = "enabled"
  /\ ~effectPending
  /\ ~(socket = "null" \/ IsNull(selectedPlaylist) \/ IsNull(spotifyToken))
  /\ Len(emitted) < MaxEmit
  /\ emitted' = Append(emitted, StartGameMsg(Val(spotifyToken)))
  /\ starts' = Append(starts, StartClosure)
  /\ UNCHANGED <<routeVars, socket, mounted, effectPending, subscribed, players, isReady, spotifyToken,
                 playlists, selectedPlaylist, showPlaylistDialog, isStarting, fetch, lastSnapshot, navs,
                 alerts>>

\* A click on the Start Game button: handleStartGame()
HandleStartGame ==
  /\ StartButton = "enabled"
  /\ ~effectPending
  /\ ~(socket = "null" \/ IsNull(selectedPlaylist) \/ IsNull(spotifyToken))
  /\ Len(emitted) < MaxEmit
  /\ isStarting' = TRUE
  /\ emitted' = Append(emitted, StartGameMsg(Val(spotifyToken)))
  /\ starts' = Append(starts, StartClosure)
  /\ UNCHANGED <<routeVars, socket, mounted, effectPending, subscribed, players, isReady, spotifyToken,
                 playlists, selectedPlaylist, showPlaylistDialog, fetch, lastSnapshot, navs, alerts>>

\* The callback of the setTimeout of call k runs, 5000 ms after the call.
StartTimeout(k) ==
  /\ k \in 1..Len(starts)
  /\ starts[k].timer
  /\ starts' = [starts EXCEPT ![k].timer = FALSE]
  /\ IF starts[k].isStarting
     THEN /\ alerts' = Append(alerts, StartTimeoutAlert)
          /\ isStarting' = IF mounted THEN FALSE ELSE isStarting
     ELSE UNCHANGED <<alerts, isStarting>>
  /\ UNCHANGED <<routeVars, socket, mounted, effectPending, subscribed, players, isReady, spotifyToken,
                 playlists, selectedPlaylist, showPlaylistDialog, fetch, lastSnapshot, emitted, navs>>

\* ------------------------------------------------------------------ guest
\* A handleReady that sets the mirror from the snapshot's readiness.
HandleReadyFromSnapshot ==
  /\ ReadyButtonShown
  /\ ~effectPending
  /\ socket # "null"
  /\ Len(emitted) < MaxEmit
  /\ emitted' = Append(emitted, ToggleMsg)
  /\ isReady' = ~IsPlayerReady
  /\ UNCHANGED <<routeVars, socket, mounted, effectPending, subscribed, players, spotifyToken, playlists,
                 selectedPlaylist, showPlaylistDialog, isStarting, fetch, starts, lastSnapshot, navs, alerts>>

\* A click on the Ready button: handleReady()
HandleReady ==
  /\ ReadyButtonShown
  /\ ~effectPending
  /\ socket # "null"
  /\ Len(emitted) < MaxEmit
  /\ emitted' = Append(emitted, ToggleMsg)
  /\ isReady' = ~isReady
  /\ UNCHANGED <<routeVars, socket, mounted, effectPending, subscribed, players, spotifyToken, playlists,
                 selectedPlaylist, showPlaylistDialog, isStarting, fetch, starts, lastSnapshot, navs, alerts>>

\* ---------------------------------------------------------- specification
Next ==
  \/ SocketCreated
  \/ Connect
  \/ MountEffect
  \/ EffectRerun
  \/ Unmount
  \/ \E lobby \in Lobbies : OnLobbyUpdate(lobby)
  \/ \E playlist \in GameStartPlaylists : OnGameStart(playlist)
  \/ \E message \in ErrorMessages : OnError(message)
  \/ OnGameStateUpdate
  \/ \E token \in Tokens : HandleSpotifyAuth(token)
  \/ \E response \in SampleResponses : HandleSpotifyAuthResume(response)
  \/ OpenPlaylistDialog
  \/ ClosePlaylistDialog
  \/ \E i \in 1..MaxItems : HandlePlaylistSelect(i)
  \/ HandleStartGame
  \/ \E k \in 1..(MaxNavs + 1) : StartTimeout(k)
  \/ HandleReady

Spec == Init /\ [][Next]_vars

\* The catalog specification: the host view's catalog fetch alone, over every
\* response of at most MaxItems entries.
CatalogInit ==
  /\ Init
  /\ isHost = TRUE
  /\ socket = "connected"

CatalogNext ==
  \/ MountEffect
  \/ \E token \in Tokens : HandleSpotifyAuth(token)
  \/ \E response \in AllResponses : HandleSpotifyAuthResume(response)
  \/ OpenPlaylistDialog
  \/ ClosePlaylistDialog

SpecCatalog == CatalogInit /\ [][CatalogNext]_vars

\* ------------------------------------------------------------ properties
\* The number of entries of seq that are x.
Count(seq, x) == Cardinality({i \in 1..Len(seq) : seq[i] = x})

\* The number of messages of em whose event is ev.
EventCount(em, ev) == Cardinality({i \in 1..Len(em) : em[i].event = ev})

\* Every player of ps with isHost = false has isReady = true.
AllGuestsReady(ps) == \A i \in 1..Len(ps) : ~ps[i].isHost => ps[i].isReady

\* C1: the players list the view holds is the players list of the lobbyUpdate
\* snapshot it handled last (the empty list before the first): a snapshot
\* replaces the list, and no other operation changes it.
C1_PlayersAreLastSnapshot ==
  players = (IF IsNull(lastSnapshot) THEN <<>> ELSE Val(lastSnapshot))

\* A snapshot with players has been handled, and a click has acted as well.
C1_Witness ==
  /\ ~IsNull(lastSnapshot)
  /\ players # <<>>
  /\ isStarting \/ isReady

\* C2: in a host view on screen, the Start Game button is enabled exactly when
\* a playlist is selected, a credential is present, every player that is not
\* the host is ready, and no start is in flight.
C2_StartEnabledIff ==
  (mounted /\ isHost) =>
    ((StartButton = "enabled") <=>
       /\ ~IsNull(selectedPlaylist)
       /\ ~IsNull(spotifyToken)
       /\ AllGuestsReady(players)
       /\ ~isStarting)

\* A host view whose button is enabled with a guest in the list.
C2_Witness ==
  /\ mounted
  /\ isHost
  /\ StartButton = "enabled"
  /\ \E i \in 1..Len(players) : ~players[i].isHost

\* C3 (as claimed): once the timer of the latest handleStartGame call has run
\* while neither its gameStateUpdate listener nor its error listener has, the
\* view is not starting and the timeout has been reported, once per timer.
C3_TimeoutReportsFailure ==
  LET k == Len(starts)
      ran == {j \in 1..Len(starts) : ~starts[j].timer}
  IN (mounted /\ k > 0 /\ ~starts[k].timer /\ starts[k].ack /\ starts[k].err) =>
       /\ ~isStarting
       /\ Count(alerts, StartTimeoutAlert) >= 1
       /\ Count(alerts, StartTimeoutAlert) <= Cardinality(ran)

\* C4: a step that emits startGame starts in a state where a playlist is
\* selected, a credential is present and every player that is not the host is
\* ready.
C4_StartOnlyWhenValid ==
  [][EventCount(emitted', "startGame") > EventCount(emitted, "startGame") =>
       /\ ~IsNull(selectedPlaylist)
       /\ ~IsNull(spotifyToken)
       /\ AllGuestsReady(players)]_vars

\* startGame has been emitted with a guest in the list.
C4_Witness ==
  /\ EventCount(emitted, "startGame") >= 1
  /\ isStarting
  /\ \E i \in 1..Len(players) : ~players[i].isHost /\ players[i].isReady

\* C5: the local isReady mirror has been flipped once per toggleReady message
\* emitted, whatever snapshots arrived in between: it is true exactly when the
\* number of toggleReady messages is odd.
C5_ToggleEmitsAndFlips ==
  isReady = (EventCount(emitted, "toggleReady") % 2 = 1)

\* Two toggles went out while a snapshot says this player is ready.
C5_Witness ==
  /\ EventCount(emitted, "toggleReady") = 2
  /\ ~isReady
  /\ IsPlayerReady

\* C6 (as claimed): a mount emits joinLobby at most once, however often the
\* effect runs.
C6_JoinOncePerMount ==
  EventCount(emitted, "joinLobby") <= 1

\* C7: after a successful fetch the candidate list is the entries of the
\* response that carry tracks, in the order of the response, each with its id,
\* its name (the placeholder when absent or empty), its tracks.total (0 when
\* absent) and the url of its first image (absent when there is none).
C7_CatalogFormat ==
  fetch.status = "done" =>
    LET items == fetch.response.items
        kept == {i \in 1..Len(items) : ~IsNull(items[i]) /\ ~IsNull(Val(items[i]).tracks)}
        nth(k) == CHOOSE i \in kept : Cardinality({j \in kept : j <= i}) = k
    IN /\ Len(playlists) = Cardinality(kept)
       /\ \A k \in 1..Len(playlists) :
            LET it == Val(items[nth(k)])
                pl == playlists[k]
            IN /\ pl.id = it.id
               /\ pl.name = (IF it.name \in {Null, Some("")} THEN "Unnamed Playlist" ELSE Val(it.name))
               /\ pl.tracks = (IF IsNull(Val(it.tracks).total) THEN 0 ELSE Val(Val(it.tracks).total))
               /\ pl.imageUrl = (IF it.images \in {Null, Some(<<>>)} THEN Null ELSE Val(it.images)[1].url)

\* A three-item response with one entry lacking tracks gave two playlists.
C7_Witness ==
  /\ fetch.status = "done"
  /\ Len(fetch.response.items) = 3
  /\ Cardinality({i \in 1..3 : ~HasTracks(fetch.response.items[i])}) = 1
  /\ ~HasTracks(fetch.response.items[2])
  /\ Len(playlists) = 2

\* C8 (as claimed): a step in which the failure of a start is reported on an
\* error event resets isStarting and pushes no route: the view stays in the lobby.
C8_StartFailureKeepsLobby ==
  [][(isStarting /\ Count(alerts', StartFailedAlert) > Count(alerts, StartFailedAlert)) =>
       (~isStarting' /\ navs' = navs)]_vars

\* C9: an error event handled while the listeners of the effect are attached
\* alerts its message, pushes the entry screen's route and emits nothing.
C9_ErrorIsFatal ==
  [][\A message \in ErrorMessages :
       (subscribed /\ OnError(message)) =>
         /\ Count(alerts', message) = Count(alerts, message) + 1
         /\ navs' = Append(navs, HomeRoute)
         /\ emitted' = emitted]_vars

\* An error event was handled while a start was in flight.
C9_Witness ==
  /\ \E message \in ErrorMessages : Count(alerts, message) >= 1
  /\ Count(alerts, StartFailedAlert) >= 1
  /\ Count(navs, HomeRoute) >= 1

\* C10 (as claimed): a step in which the fetch fails leaves the candidate list
\* and the dialog as they were, and SpotifyAuth stays on screen for the host
\* to fetch again.
C10_FetchFailureRetryable ==
  [][(fetch.status = "pending" /\ fetch'.status = "failed") =>
       /\ playlists' = playlists
       /\ showPlaylistDialog' = showPlaylistDialog
       /\ fetch'.status # "pending"
       /\ (mounted => SpotifyAuthShown')]_vars

\* The router.push calls of nv that carry a credential: those of the one-shot
\* gameStateUpdate listeners.
AckNavCount(nv) == Cardinality({i \in 1..Len(nv) : ~IsNull(nv[i].token)})

\* The router.push calls of nv made by the gameStart listener.
GameStartNavCount(nv) ==
  Cardinality({i \in 1..Len(nv) : nv[i].path # HomeRoute.path /\ IsNull(nv[i].token)})

\* C11: a view whose host flag is false never emits updatePlaylist or
\* startGame: it holds no credential and no candidates, its dialog is closed
\* and it has no start control.
C11_GuestNeverActsAsHost ==
  ~isHost =>
    /\ EventCount(emitted, "updatePlaylist") = 0
    /\ EventCount(emitted, "startGame") = 0
    /\ IsNull(spotifyToken)
    /\ playlists = <<>>
    /\ ~showPlaylistDialog
    /\ StartButton = "absent"

\* A guest that toggled, holding a snapshot with a playlist and no guest unready.
C11_Witness ==
  /\ ~isHost
  /\ mounted
  /\ EventCount(emitted, "toggleReady") >= 1
  /\ ~IsNull(selectedPlaylist)
  /\ ~IsNull(lastSnapshot)
  /\ AllGuestsReady(players)

\* C12 (as claimed): of the three outcomes of a handleStartGame call only the
\* first takes effect, so the navigations of the gameStateUpdate listeners and
\* the reports of start failures and timeouts number at most one per call.
C12_OneOutcomePerStart ==
  AckNavCount(navs) + Count(alerts, StartFailedAlert) + Count(alerts, StartTimeoutAlert)
    <= Len(starts)

\* C13 (as claimed): once the view has left the screen no listener of it is
\* attached any more, so no step pushes a route or changes its state.
C13_TeardownRemovesListeners ==
  [][~mounted => (navs' = navs /\ UNCHANGED reactVars)]_vars

\* C14 (as claimed): the navigation of the gameStart listener is the view's
\* last: in particular no gameStateUpdate listener of a host view navigates
\* after it.
C14_GameStartIsTerminal ==
  [][GameStartNavCount(navs) >= 1 => AckNavCount(navs') = AckNavCount(navs)]_vars

\* C15: a lobbyUpdate whose snapshot carries a playlist sets selectedPlaylist
\* to exactly that playlist, one that carries none leaves it as it was, and no
\* step makes a selection null again.
C15_SnapshotPlaylistOverwrites ==
  [][/\ \A lobby \in Lobbies :
          OnLobbyUpdate(lobby) =>
            selectedPlaylist' = (IF IsNull(lobby.spotifyPlaylist) THEN selectedPlaylist
                                 ELSE lobby.spotifyPlaylist)
     /\ ~IsNull(selectedPlaylist) => ~IsNull(selectedPlaylist')]_vars

\* The host chose a playlist of its catalog, and a snapshot's playlist (id and
\* name only) has replaced it.
C15_Witness ==
  /\ EventCount(emitted, "updatePlaylist") >= 1
  /\ selectedPlaylist \in {Some(p) : p \in SnapshotPlaylists}

\* C16: a handlePlaylistSelect call emits one message, and a step that emits
\* updatePlaylist sets selectedPlaylist to the whole chosen candidate, closes
\* the dialog, appends one message whose playlist holds the id and the name of
\* the candidate and nothing else, and leaves players, isStarting and the
\* credential as they were.
C16_SelectEmitsIdAndName ==
  [][/\ \A i \in 1..MaxItems :
          HandlePlaylistSelect(i) =>
            EventCount(emitted', "updatePlaylist") = EventCount(emitted, "updatePlaylist") + 1
     /\ EventCount(emitted', "updatePlaylist") > EventCount(emitted, "updatePlaylist") =>
          \E i \in 1..Len(playlists) :
            /\ selectedPlaylist' = Some(playlists[i])
            /\ ~showPlaylistDialog'
            /\ Len(emitted') = Len(emitted) + 1
            /\ SubSeq(emitted', 1, Len(emitted)) = emitted
            /\ emitted'[Len(emitted')].lobbyId = lobbyId
            /\ DOMAIN emitted'[Len(emitted')].playlist = {"id", "name"}
            /\ emitted'[Len(emitted')].playlist.id = playlists[i].id
            /\ emitted'[Len(emitted')].playlist.name = playlists[i].name
            /\ UNCHANGED <<players, isStarting, spotifyToken>>]_vars

\* The host chose a candidate that has a track count and an image.
C16_Witness ==
  /\ EventCount(emitted, "updatePlaylist") >= 1
  /\ ~IsNull(selectedPlaylist)
  /\ DOMAIN Val(selectedPlaylist) = {"id", "name", "tracks", "imageUrl"}
  /\ ~IsNull(Val(selectedPlaylist).imageUrl)
  /\ ~showPlaylistDialog

\* C17: the readiness a guest view shows is that of the entry of players with
\* the socket's id (not ready when there is none); a step that emits
\* toggleReady leaves players, selectedPlaylist and isStarting as they were,
\* and a lobbyUpdate leaves the isReady mirror as it was.
C17_ReadinessFromSnapshot ==
  /\ []((ReadyButtonLabel = "Not Ready") <=>
          \E i \in 1..Len(players) : players[i].id = SocketId /\ players[i].isReady)
  /\ [][/\ EventCount(emitted', "toggleReady") > EventCount(emitted, "toggleReady") =>
             UNCHANGED <<players, selectedPlaylist, isStarting>>
        /\ \A lobby \in Lobbies : OnLobbyUpdate(lobby) => isReady' = isReady]_vars

\* The mirror says ready after a toggle while the snapshot's entry says not.
C17_Witness ==
  /\ ReadyButtonShown
  /\ EventCount(emitted, "toggleReady") = 1
  /\ isReady
  /\ \E i \in 1..Len(players) : players[i].id = SocketId /\ ~players[i].isReady
  /\ ReadyButtonLabel = "Ready"

\* C18: a startGame message is emitted only from a state where isStarting is
\* false, and the emission sets it; so there are never more startGame
\* emissions than failure outcomes (a start error or a start timeout alert)
\* plus one.
C18_OneStartInFlight ==
  /\ [][EventCount(emitted', "startGame") > EventCount(emitted, "startGame") =>
          ~isStarting /\ isStarting']_vars
  /\ [](EventCount(emitted, "startGame") <=
          Count(alerts, StartFailedAlert) + Count(alerts, StartTimeoutAlert) + 1)

\* A second start is in flight after the first one failed.
C18_Witness ==
  /\ EventCount(emitted, "startGame") = 2
  /\ Count(alerts, StartFailedAlert) = 1
  /\ isStarting

\* C19: while a start is in flight a playlist is selected and a credential is
\* present.
C19_StartingHasPlaylistAndToken ==
  isStarting => ~IsNull(selectedPlaylist) /\ ~IsNull(spotifyToken)

\* A start is in flight on a playlist that came from a snapshot and a
\* credential whose playlist fetch failed.
C19_Witness ==
  /\ isStarting
  /\ Len(starts) = 1
  /\ fetch.status = "failed"
  /\ selectedPlaylist \in {Some(p) : p \in SnapshotPlaylists}
  /\ ~IsNull(spotifyToken)
====
